---------------------------- MODULE Spec2Model ----------------------------
(***************************************************************************)
(* Model of the candidate generation, causal graph engine and ranking      *)
(* pipeline of the medical-diagnosis service (agents/causal_discovery.py,  *)
(* agents/decision_making.py, api/agents_router.py).                       *)
(*                                                                         *)
(* Probabilities and edge weights are fixed-point integers: a transition   *)
(* probability is a number of quarters (1 = 0.25), an edge weight a number *)
(* of ten-thousandths (WOne = 1.0), a fit score a number of thousandths.   *)
(***************************************************************************)
EXTENDS Integers, Sequences, FiniteSets, TLC

\* ------------------------------------------------------------------ bounds
MaxProb == 2
MaxEps == 1
MaxEdits == 2
MaxTextLen == 3
MaxWait == 2

\* --------------------------------------------------------------- constants
Codes == {"A", "B", "C"}
NoRow == -1
NoCooc == <<NoRow, NoRow>>
NoFit == 999999

VARIABLES
    cooc,              \* diagnosis_matrix: [a, b] -> <<count, total>> or NoCooc
    dag,               \* the CausalGraph being built and edited
    prevDag,           \* the graph before the last operation on it
    prev2Dag,          \* the graph before the last two operations
    lastOp,            \* the last operation: [action, from, to, reason]
    prevOp,            \* the operation before it
    nEdits,            \* operations applied to the graph so far
    memory,            \* agent_memories rows of the patient, oldest first
    predRows,          \* number of rows of the predictions table
    req,               \* the request each handler serves
    rpc,               \* where each handler stands: "start" | "loaded" | "done"
    local,             \* each handler's dag variable
    rankPc,            \* rank_and_explain: "start" | "generating" | "returned"
    rankIn,            \* its arguments: candidates, graph, summaries, comment
    genOutcome,        \* how the generation ended: "none" | "raised" | "text"
    modelOutput,       \* the generated text, as tokens
    waited,            \* time units spent inside the generation call
    rankResult,        \* the returned Prediction
    trans,             \* transition_matrix: [from, to] -> probability or NoRow
    currentDiseases,   \* the DISTINCT disease codes of the visit, in row order
    epsilon,           \* build_candidate_set's threshold
    candPc,            \* "start" | "built"
    sortedCandidates,  \* sorted_candidates: <<code, prob>> pairs
    candidateSet,      \* the returned list of codes
    engPc,             \* graph engine run: "start" | "generated" | "fitted" | "refining" | "refined"
    engEntities,       \* generate_initial_dag's entities
    engDag,            \* the dag of the run
    refSummaries,      \* iterative_refine's summaries
    refMaxIter,        \* iterative_refine's max_iter
    refIteration,      \* the loop variable iteration: passes made so far
    refHistory,        \* modification_history
    passMods,          \* the number of modifications of each pass made
    sumPc,             \* _generate_summary: "start" | "done"
    sumContent,        \* its content, a sequence of characters
    sumMaxChars,       \* its max_chars
    sumResult,         \* the returned summary
    fbPc,              \* _deterministic_fallback alone: "start" | "returned"
    fbIn,              \* its arguments: candidates, graph, summaries, comment
    fbResult,          \* the returned Prediction
    pipeStore,         \* the tables: agent_memories, predictions, knowledge_summary_cache
    calls,             \* every request received so far, with what its handler did
    hrid               \* the request each handler serves, 0 when it serves none

candVars == <<trans, currentDiseases, epsilon, candPc, sortedCandidates, candidateSet>>

graphVars == <<cooc, dag, prevDag, prev2Dag, lastOp, prevOp, nEdits>>

raceVars == <<memory, predRows, req, rpc, local>>

rankVars == <<rankPc, rankIn, genOutcome, modelOutput, waited, rankResult>>

engVars == <<engPc, engEntities, engDag, refSummaries, refMaxIter, refIteration,
             refHistory, passMods>>

sumVars == <<sumPc, sumContent, sumMaxChars, sumResult>>

fbVars == <<fbPc, fbIn, fbResult>>

pipeVars == <<pipeStore, calls, hrid>>

vars == <<trans, currentDiseases, epsilon, candPc, sortedCandidates, candidateSet,
          cooc, dag, prevDag, prev2Dag, lastOp, prevOp, nEdits,
          memory, predRows, req, rpc, local,
          rankPc, rankIn, genOutcome, modelOutput, waited, rankResult,
          engPc, engEntities, engDag, refSummaries, refMaxIter, refIteration,
          refHistory, passMods,
          sumPc, sumContent, sumMaxChars, sumResult,
          fbPc, fbIn, fbResult,
          pipeStore, calls, hrid>>

\* ----------------------------------------------------------------- helpers
Range(s) == {s[i] : i \in 1..Len(s)}

Max2(a, b) == IF a >= b THEN a ELSE b

Min2(a, b) == IF a <= b THEN a ELSE b

\* The sequences that list every member of S exactly once.
Perms(S) == {s \in [1..Cardinality(S) -> S] : Range(s) = S}

\* The graph variables of a run that builds no graph.
NoDag == [nodes |-> <<>>, edges |-> <<>>, global_fit |-> NoFit,
          modification_history |-> <<>>]

NoOp == [action |-> "none", from |-> "none", to |-> "none", reason |-> "none"]

GraphIdle ==
    /\ cooc = [p \in Codes \X Codes |-> NoCooc]
    /\ dag = NoDag
    /\ prevDag = NoDag
    /\ prev2Dag = NoDag
    /\ lastOp = NoOp
    /\ prevOp = NoOp
    /\ nEdits = 0

Procs == {1, 2}

NoRequest == [kind |-> "none", action |-> "none", from |-> "none", to |-> "none",
              reason |-> "none"]

\* The request variables of a run that serves no request.
RaceIdle ==
    /\ memory = <<>>
    /\ predRows = 0
    /\ req = [p \in Procs |-> NoRequest]
    /\ rpc = [p \in Procs |-> "idle"]
    /\ local = [p \in Procs |-> NoDag]

\* The ranking variables of a run that ranks nothing.
NoResultYet ==
    [path |-> "none", keys |-> {}, predictions |-> <<>>, explanation |-> "none",
     explanation_len |-> 0, evidence |-> <<>>, snippet_lens |-> <<>>,
     dag |-> NoDag, fallback |-> FALSE]

RankIdle ==
    /\ rankPc = "idle"
    /\ rankIn = [candidates |-> <<>>, graph |-> NoDag, summaries |-> <<>>, comment |-> ""]
    /\ genOutcome = "none"
    /\ modelOutput = <<>>
    /\ waited = 0
    /\ rankResult = NoResultYet

\* The engine-run variables of a run that drives no engine function.
EngIdle ==
    /\ engPc = "idle"
    /\ engEntities = <<>>
    /\ engDag = NoDag
    /\ refSummaries = <<>>
    /\ refMaxIter = 0
    /\ refIteration = 0
    /\ refHistory = <<>>
    /\ passMods = <<>>

\* The summary variables of a run that summarises nothing.
SumIdle ==
    /\ sumPc = "idle"
    /\ sumContent = <<>>
    /\ sumMaxChars = 0
    /\ sumResult = <<>>

FbIdle ==
    /\ fbPc = "idle"
    /\ fbIn = <<>>
    /\ fbResult = NoResultYet

PipeIdle ==
    /\ pipeStore = [mem |-> <<>>, preds |-> <<>>, cache |-> <<>>]
    /\ calls = <<>>
    /\ hrid = [p \in Procs |-> 0]

\* ------------------------------------------------- build_candidate_set
\* SELECT to_disease, transition_prob FROM transition_matrix
\* WHERE from_disease = d AND transition_prob > eps: the matching targets.
RowTargetsAtLeast(tm, d, eps) == {t \in Codes : tm[<<d, t>>] # NoRow /\ tm[<<d, t>>] >= eps}

RowTargets(tm, d, eps) == {t \in Codes : tm[<<d, t>>] # NoRow /\ tm[<<d, t>>] > eps}

RECURSIVE InsertDesc(_, _, _)
\* Insert row r into `rows`, which is ordered by prob descending; among equal
\* probabilities the row order `tie` of the table decides.
InsertDesc(rows, r, tie) ==
    IF rows = <<>> THEN <<r>>
    ELSE IF r[2] > Head(rows)[2] \/ (r[2] = Head(rows)[2] /\ tie[r[1]] < tie[Head(rows)[1]])
         THEN <<r>> \o rows
         ELSE <<Head(rows)>> \o InsertDesc(Tail(rows), r, tie)

RECURSIVE OrderRows(_, _, _, _)
\* ... ORDER BY transition_prob DESC: the rows of one current disease.
OrderRows(tm, d, targets, tie) ==
    IF targets = {} THEN <<>>
    ELSE LET t == CHOOSE x \in targets : TRUE
         IN  InsertDesc(OrderRows(tm, d, targets \ {t}, tie), <<t, tm[<<d, t>>]>>, tie)

FetchRows(tm, d, eps, tie) == OrderRows(tm, d, RowTargets(tm, d, eps), tie)

\* candidates[to_disease] = prob when the key is new or prob is larger:
\* the dict is a list of <<code, prob>> in insertion order.
\* Mutation: the first probability seen for a target is kept.
KeepFirstSeen(cands, row) ==
    IF \E i \in 1..Len(cands) : cands[i][1] = row[1]
    THEN cands
    ELSE Append(cands, row)

MergeCandidate(cands, row) ==
    IF \E i \in 1..Len(cands) : cands[i][1] = row[1]
    THEN [i \in 1..Len(cands) |->
            IF cands[i][1] = row[1] /\ row[2] > cands[i][2] THEN row ELSE cands[i]]
    ELSE Append(cands, row)

RECURSIVE MergeRows(_, _)
MergeRows(cands, rows) ==
    IF rows = <<>> THEN cands
    ELSE MergeRows(MergeCandidate(cands, Head(rows)), Tail(rows))

RECURSIVE CollectCandidates(_, _, _, _, _)
\* the loop over current_diseases
CollectCandidates(tm, diseases, eps, tie, cands) ==
    IF diseases = <<>> THEN cands
    ELSE CollectCandidates(tm, Tail(diseases), eps, tie,
                           MergeRows(cands, FetchRows(tm, Head(diseases), eps, tie)))

RECURSIVE StableInsertDesc(_, _)
\* r goes after every item whose key is >= its own: equal keys keep their order.
StableInsertDesc(sorted, r) ==
    IF sorted = <<>> THEN <<r>>
    ELSE IF r[2] > Head(sorted)[2]
         THEN <<r>> \o sorted
         ELSE <<Head(sorted)>> \o StableInsertDesc(Tail(sorted), r)

RECURSIVE SortDescending(_)
\* sorted(candidates.items(), key=lambda x: x[1], reverse=True)
SortDescending(items) ==
    IF items = <<>> THEN <<>>
    ELSE StableInsertDesc(SortDescending(SubSeq(items, 1, Len(items) - 1)), items[Len(items)])

\* The stores the candidate builder is run against: at most two current
\* diseases ("A", "B"), any row set over their outgoing pairs.
CandSources == {"A", "B"}

CandStores ==
    {tm \in [Codes \X Codes -> {NoRow} \cup (0..MaxProb)] :
        \A p \in Codes \X Codes : p[1] \notin CandSources => tm[p] = NoRow}

CandInit ==
    /\ trans \in CandStores
    /\ currentDiseases \in UNION {Perms(S) : S \in SUBSET CandSources}
    /\ epsilon \in 0..MaxEps
    /\ candPc = "start"
    /\ sortedCandidates = <<>>
    /\ candidateSet = <<>>
    /\ GraphIdle
    /\ RaceIdle
    /\ RankIdle
    /\ EngIdle
    /\ SumIdle
    /\ FbIdle
    /\ PipeIdle

BuildCandidateSet ==
    /\ candPc = "start"
    /\ \E tie \in Perms(Codes) :
          LET tieRank == [c \in Codes |-> CHOOSE i \in 1..Len(tie) : tie[i] = c]
              merged  == IF currentDiseases = <<>> THEN <<>>
                         ELSE CollectCandidates(trans, currentDiseases, epsilon, tieRank, <<>>)
              sorted  == SortDescending(merged)
          IN  /\ sortedCandidates' = sorted
              /\ candidateSet' = [i \in 1..Len(sorted) |-> sorted[i][1]]
    /\ candPc' = "built"
    /\ UNCHANGED <<trans, currentDiseases, epsilon>>
    /\ UNCHANGED <<graphVars, raceVars, rankVars, engVars, sumVars, fbVars, pipeVars>>

CandNext == BuildCandidateSet

SpecCand == CandInit /\ [][CandNext]_vars

\* ---------------------------------------------------------- graph engine
WOne == 10000
ClinicianWeight == 8000
FitMissing == -5000
FitZeroProb == -10000
BoostNum == 12
BoostDen == 10
DefaultMaxIter == 3

\* float(result[0]): a probability of p quarters as an edge weight
ProbToWeight(p) == p * (WOne \div 4)

NewEdge(f, t, w) ==
    [from |-> f, to |-> t, weight |-> w, fit_score |-> NoFit,
     clinician_added |-> FALSE, clinician_reversed |-> FALSE, reason |-> "none"]

\* The ordered pairs generate_initial_dag visits, in loop order.
EntityPairs(entities) ==
    [k \in 1..(Len(entities) * Len(entities)) |->
        <<entities[((k - 1) \div Len(entities)) + 1], entities[((k - 1) % Len(entities)) + 1]>>]

RECURSIVE InitialEdgesZeroToo(_, _)
\* Mutation: a stored probability of 0 makes an edge too (>= instead of >).
InitialEdgesZeroToo(tm, pairs) ==
    IF pairs = <<>> THEN <<>>
    ELSE LET p == Head(pairs)
             rest == InitialEdgesZeroToo(tm, Tail(pairs))
         IN  IF p[1] # p[2] /\ tm[p] # NoRow /\ tm[p] >= 0
             THEN <<NewEdge(p[1], p[2], ProbToWeight(tm[p]))>> \o rest
             ELSE rest

RECURSIVE InitialEdges(_, _)
InitialEdges(tm, pairs) ==
    IF pairs = <<>> THEN <<>>
    ELSE LET p == Head(pairs)
             rest == InitialEdges(tm, Tail(pairs))
         IN  IF p[1] # p[2] /\ tm[p] # NoRow /\ tm[p] > 0
             THEN <<NewEdge(p[1], p[2], ProbToWeight(tm[p]))>> \o rest
             ELSE rest

GenerateInitialDag(tm, entities) ==
    IF entities = <<>>
    THEN [NoDag EXCEPT !.nodes = <<>>, !.edges = <<>>]
    ELSE [NoDag EXCEPT !.nodes = entities,
                       !.edges = InitialEdges(tm, EntityPairs(entities))]

\* np.log(co_occurrence / total) in thousandths, for the ratios of the model
LnMilli(count, total) ==
    IF count = total THEN 0
    ELSE IF 2 * count = total THEN -693
    ELSE IF 3 * count = total THEN -1099
    ELSE IF 3 * count = 2 * total THEN -405
    ELSE IF 4 * count = total THEN -1386
    ELSE -288   \* 3 / 4

\* Mutation: the two penalties are swapped.
EdgeFitScoreSwapped(cm, f, t) ==
    IF cm[<<f, t>>] = NoCooc THEN FitZeroProb
    ELSE LET count == cm[<<f, t>>][1]
             total == cm[<<f, t>>][2]
         IN  IF total > 0
             THEN IF count > 0 THEN LnMilli(count, total) ELSE FitMissing
             ELSE FitMissing

EdgeFitScore(cm, f, t) ==
    IF cm[<<f, t>>] = NoCooc THEN FitMissing
    ELSE LET count == cm[<<f, t>>][1]
             total == cm[<<f, t>>][2]
         IN  IF total > 0
             THEN IF count > 0 THEN LnMilli(count, total) ELSE FitZeroProb
             ELSE FitZeroProb

RECURSIVE SumFit(_)
SumFit(edges) ==
    IF edges = <<>> THEN 0 ELSE Head(edges).fit_score + SumFit(Tail(edges))

FitGraphWithData(cm, g) ==
    LET fitted == [i \in 1..Len(g.edges) |->
                      [g.edges[i] EXCEPT !.fit_score = EdgeFitScore(cm, g.edges[i].from, g.edges[i].to)]]
    IN  [g EXCEPT !.edges = fitted, !.global_fit = SumFit(fitted)]

\* --------------------------------------------------- apply_clinician_edit
ClinicianEdge(f, t, reason) ==
    [from |-> f, to |-> t, weight |-> ClinicianWeight, fit_score |-> NoFit,
     clinician_added |-> TRUE, clinician_reversed |-> FALSE, reason |-> reason]

\* Mutation: the added edge is put in front of the list.
AddEdgeInFront(g, f, t, reason) ==
    LET nodes1 == IF f \in Range(g.nodes) THEN g.nodes ELSE Append(g.nodes, f)
        nodes2 == IF t \in Range(g.nodes) THEN nodes1 ELSE Append(nodes1, t)
    IN  [g EXCEPT !.edges = <<ClinicianEdge(f, t, reason)>> \o g.edges, !.nodes = nodes2]

\* add_edge: node_ids is read once, before either node is appended
AddEdgeEdit(g, f, t, reason) ==
    LET nodes1 == IF f \in Range(g.nodes) THEN g.nodes ELSE Append(g.nodes, f)
        nodes2 == IF t \in Range(g.nodes) THEN nodes1 ELSE Append(nodes1, t)
    IN  [g EXCEPT !.edges = Append(g.edges, ClinicianEdge(f, t, reason)), !.nodes = nodes2]

RECURSIVE FilterOut(_, _, _)
FilterOut(edges, f, t) ==
    IF edges = <<>> THEN <<>>
    ELSE IF Head(edges).from = f /\ Head(edges).to = t
         THEN FilterOut(Tail(edges), f, t)
         ELSE <<Head(edges)>> \o FilterOut(Tail(edges), f, t)

\* remove_edge: the list comprehension keeps the edges that do not match
RemoveEdgeEdit(g, f, t) == [g EXCEPT !.edges = FilterOut(g.edges, f, t)]

Matches(edges, f, t) == {i \in 1..Len(edges) : edges[i].from = f /\ edges[i].to = t}

FirstMatch(edges, f, t) ==
    CHOOSE i \in Matches(edges, f, t) : \A j \in Matches(edges, f, t) : i <= j

\* Mutation: every matching edge is reversed (the loop's break is missing).
ReverseAllEdit(g, f, t, reason) ==
    [g EXCEPT !.edges = [i \in 1..Len(g.edges) |->
        IF i \in Matches(g.edges, f, t)
        THEN [g.edges[i] EXCEPT !.from = t, !.to = f,
                                !.clinician_reversed = TRUE, !.reason = reason]
        ELSE g.edges[i]]]

\* reverse_edge: the first matching edge, then break
ReverseEdgeEdit(g, f, t, reason) ==
    IF Matches(g.edges, f, t) = {} THEN g
    ELSE [g EXCEPT !.edges[FirstMatch(g.edges, f, t)] =
              [@ EXCEPT !.from = t, !.to = f,
                        !.clinician_reversed = TRUE, !.reason = reason]]

\* Mutation: the fit scores are computed before the edit, not after it.
EditWithoutRefit(cm, g, action, f, t, reason) ==
    LET fitted == FitGraphWithData(cm, g)
    IN  CASE action = "add_edge" -> AddEdgeEdit(fitted, f, t, reason)
          [] action = "remove_edge" -> RemoveEdgeEdit(fitted, f, t)
          [] action = "reverse_edge" -> ReverseEdgeEdit(fitted, f, t, reason)
          [] OTHER -> fitted

ApplyClinicianEdit(cm, g, action, f, t, reason) ==
    FitGraphWithData(cm,
        CASE action = "add_edge" -> AddEdgeEdit(g, f, t, reason)
          [] action = "remove_edge" -> RemoveEdgeEdit(g, f, t)
          [] action = "reverse_edge" -> ReverseEdgeEdit(g, f, t, reason)
          [] OTHER -> g)

\* -------------------------------------------------------- iterative_refine
\* str.lower() on the disease codes the model uses
Lower(c) ==
    CASE c = "A" -> "a" [] c = "B" -> "b" [] c = "C" -> "c" [] OTHER -> c

\* Mutation: the boost without min(1.0, ...).
BoostUnclamped(w) == (w * BoostNum) \div BoostDen

BoostWeight(w) == Min2(WOne, (w * BoostNum) \div BoostDen)

\* A summary is [disease_code, phrase]: phrase is the first entry of
\* causal_phrases its lower-cased content contains, "none" when it holds none.
SummaryMatches(s, e) ==
    /\ Lower(s.disease_code) \in {Lower(e.from), Lower(e.to)}
    /\ s.phrase # "none"

RECURSIVE RefineEdgeSkipClamped(_, _, _)
\* Mutation: an edge already at 1.0 is not boosted and leaves no record.
RefineEdgeSkipClamped(e, summaries, iteration) ==
    IF summaries = <<>> THEN <<e, <<>>>>
    ELSE IF SummaryMatches(Head(summaries), e) /\ e.weight < WOne
         THEN LET boosted == [e EXCEPT !.weight = BoostWeight(e.weight)]
                  rec == [iteration |-> iteration, from |-> e.from, to |-> e.to,
                          phrase |-> Head(summaries).phrase,
                          doc |-> Lower(Head(summaries).disease_code),
                          old_weight |-> e.weight, new_weight |-> boosted.weight]
                  rest == RefineEdgeSkipClamped(boosted, Tail(summaries), iteration)
              IN  <<rest[1], <<rec>> \o rest[2]>>
         ELSE RefineEdgeSkipClamped(e, Tail(summaries), iteration)

RECURSIVE RefineEdge(_, _, _)
\* One edge against every summary: <<the edge, its modification records>>.
RefineEdge(e, summaries, iteration) ==
    IF summaries = <<>> THEN <<e, <<>>>>
    ELSE IF SummaryMatches(Head(summaries), e)
         THEN LET boosted == [e EXCEPT !.weight = BoostWeight(e.weight)]
                  rec == [iteration |-> iteration, from |-> e.from, to |-> e.to,
                          phrase |-> Head(summaries).phrase,
                          doc |-> Lower(Head(summaries).disease_code),
                          old_weight |-> e.weight, new_weight |-> boosted.weight]
                  rest == RefineEdge(boosted, Tail(summaries), iteration)
              IN  <<rest[1], <<rec>> \o rest[2]>>
         ELSE RefineEdge(e, Tail(summaries), iteration)

RECURSIVE RefinePass(_, _, _)
\* One pass over the edges: <<the edges, the pass's modification records>>.
RefinePass(edges, summaries, iteration) ==
    IF edges = <<>> THEN <<<<>>, <<>>>>
    ELSE LET one == RefineEdge(Head(edges), summaries, iteration)
             rest == RefinePass(Tail(edges), summaries, iteration)
         IN  <<<<one[1]>> \o rest[1], one[2] \o rest[2]>>

RECURSIVE RefineLoop(_, _, _, _, _, _)
RefineLoop(cm, g, summaries, iteration, maxIter, history) ==
    IF iteration >= maxIter
    THEN [g EXCEPT !.modification_history = history]
    ELSE LET pass == RefinePass(g.edges, summaries, iteration)
         IN  IF pass[2] # <<>>
             THEN RefineLoop(cm, FitGraphWithData(cm, [g EXCEPT !.edges = pass[1]]),
                             summaries, iteration + 1, maxIter, history \o pass[2])
             ELSE [g EXCEPT !.modification_history = history]

IterativeRefine(cm, g, summaries, maxIter) == RefineLoop(cm, g, summaries, 0, maxIter, <<>>)

\* ------------------------------------------------- the graph specification
EditCodes == {"A", "B"}
Reasons == {"r1", "r2"}
Actions == {"add_edge", "remove_edge", "reverse_edge"}

\* Stores for graph runs: rows exist between "A" and "B" only.
GraphTransStores ==
    {tm \in [Codes \X Codes -> {NoRow, 0, MaxProb}] :
        \A p \in Codes \X Codes : p \notin {<<"A", "B">>, <<"B", "A">>} => tm[p] = NoRow}

GraphCoocStores ==
    {cm \in [Codes \X Codes -> {NoCooc, <<0, 2>>, <<1, 2>>}] :
        /\ \A p \in Codes \X Codes : p \notin {<<"A", "B">>, <<"B", "A">>} => cm[p] = NoCooc
        /\ cm[<<"A", "B">>] # <<0, 2>>
        /\ cm[<<"B", "A">>] # <<1, 2>>}

GraphEntities == {<<>>, <<"A", "B">>}

GraphSummaries ==
    {<<>>, <<[disease_code |-> "a", phrase |-> "risk factor"]>>,
     <<[disease_code |-> "C", phrase |-> "cause"], [disease_code |-> "B", phrase |-> "none"]>>}

CandIdle ==
    /\ currentDiseases = <<>>
    /\ epsilon = 0
    /\ candPc = "idle"
    /\ sortedCandidates = <<>>
    /\ candidateSet = <<>>

\* predict's step 5 on a patient with no stored graph (generate, then fit), or
\* refine's minimal graph when entities is empty.
GraphInit ==
    /\ trans \in GraphTransStores
    /\ cooc \in GraphCoocStores
    /\ \E entities \in GraphEntities :
          dag = FitGraphWithData(cooc, GenerateInitialDag(trans, entities))
    /\ prevDag = NoDag
    /\ prev2Dag = NoDag
    /\ lastOp = NoOp
    /\ prevOp = NoOp
    /\ nEdits = 0
    /\ CandIdle
    /\ RaceIdle
    /\ RankIdle
    /\ EngIdle
    /\ SumIdle
    /\ FbIdle
    /\ PipeIdle

Edit(action, f, t, reason) ==
    /\ nEdits < MaxEdits
    /\ dag' = ApplyClinicianEdit(cooc, dag, action, f, t, reason)
    /\ prevDag' = dag
    /\ prev2Dag' = prevDag
    /\ lastOp' = [action |-> action, from |-> f, to |-> t, reason |-> reason]
    /\ prevOp' = lastOp
    /\ nEdits' = nEdits + 1
    /\ UNCHANGED <<cooc, candVars, raceVars, rankVars, engVars, sumVars, fbVars, pipeVars>>

AddEdge == \E f \in EditCodes, t \in EditCodes, r \in Reasons : Edit("add_edge", f, t, r)

RemoveEdge == \E f \in EditCodes, t \in EditCodes, r \in Reasons : Edit("remove_edge", f, t, r)

ReverseEdge == \E f \in EditCodes, t \in EditCodes, r \in Reasons : Edit("reverse_edge", f, t, r)

Refine ==
    /\ nEdits < MaxEdits
    /\ \E summaries \in GraphSummaries :
          dag' = IterativeRefine(cooc, dag, summaries, DefaultMaxIter)
    /\ prevDag' = dag
    /\ prev2Dag' = prevDag
    /\ lastOp' = [NoOp EXCEPT !.action = "iterative_refine"]
    /\ prevOp' = lastOp
    /\ nEdits' = nEdits + 1
    /\ UNCHANGED <<cooc, candVars, raceVars, rankVars, engVars, sumVars, fbVars, pipeVars>>

GraphNext == AddEdge \/ RemoveEdge \/ ReverseEdge \/ Refine

SpecGraph == GraphInit /\ [][GraphNext]_vars

\* ------------------------------------------------ the engine functions
\* One run of generate_initial_dag, fit_graph_with_data and iterative_refine
\* on a generated graph, iterative_refine taken one pass of its for loop at
\* a time.
MaxIter == 3

\* transition_matrix rows of the engine runs: a row A->B of any probability,
\* rows B->A and A->A (a self transition), a row B->C and a zero row C->B.
EngTransStores ==
    {[p \in Codes \X Codes |->
         CASE p = <<"A", "B">> -> ab
           [] p = <<"B", "A">> -> ba
           [] p = <<"A", "A">> -> aa
           [] p = <<"B", "C">> -> 1
           [] p = <<"C", "B">> -> 0
           [] OTHER -> NoRow] :
        ab \in {NoRow} \cup 0..MaxProb, ba \in {NoRow, MaxProb}, aa \in {NoRow, MaxProb}}

\* diagnosis_matrix rows of the engine runs: <<co_occurrence_count, total_patients>>
EngCoocStores ==
    {[p \in Codes \X Codes |->
         CASE p = <<"A", "B">> -> ab
           [] p = <<"B", "A">> -> ba
           [] OTHER -> NoCooc] :
        ab \in {NoCooc, <<0, 0>>, <<0, 10>>, <<5, 10>>}, ba \in {NoCooc, <<3, 0>>}}

EngEntities ==
    {<<>>, <<"A">>, <<"A", "B">>, <<"B", "A">>, <<"A", "B", "C">>, <<"C", "A", "B">>}

EngSummaries ==
    GraphSummaries \cup
    {<<[disease_code |-> "A", phrase |-> "leads to"], [disease_code |-> "b", phrase |-> "cause"]>>}

EngInit ==
    /\ trans \in EngTransStores
    /\ cooc \in EngCoocStores
    /\ engEntities \in EngEntities
    /\ engPc = "start"
    /\ engDag = NoDag
    /\ refSummaries = <<>>
    /\ refMaxIter = 0
    /\ refIteration = 0
    /\ refHistory = <<>>
    /\ passMods = <<>>
    /\ currentDiseases = <<>>
    /\ epsilon = 0
    /\ candPc = "idle"
    /\ sortedCandidates = <<>>
    /\ candidateSet = <<>>
    /\ dag = NoDag
    /\ prevDag = NoDag
    /\ prev2Dag = NoDag
    /\ lastOp = NoOp
    /\ prevOp = NoOp
    /\ nEdits = 0
    /\ RaceIdle
    /\ RankIdle
    /\ SumIdle
    /\ FbIdle
    /\ PipeIdle

EngGenerate ==
    /\ engPc = "start"
    /\ engDag' = GenerateInitialDag(trans, engEntities)
    /\ engPc' = "generated"
    /\ UNCHANGED <<engEntities, refSummaries, refMaxIter, refIteration, refHistory, passMods>>
    /\ UNCHANGED <<candVars, graphVars, raceVars, rankVars, sumVars, fbVars, pipeVars>>

EngFit ==
    /\ engPc = "generated"
    /\ engDag' = FitGraphWithData(cooc, engDag)
    /\ engPc' = "fitted"
    /\ UNCHANGED <<engEntities, refSummaries, refMaxIter, refIteration, refHistory, passMods>>
    /\ UNCHANGED <<candVars, graphVars, raceVars, rankVars, sumVars, fbVars, pipeVars>>

\* iterative_refine is entered: modification_history = []
EngBeginRefine ==
    /\ engPc = "fitted"
    /\ refSummaries' \in EngSummaries
    /\ refMaxIter' \in 0..MaxIter
    /\ refIteration' = 0
    /\ refHistory' = <<>>
    /\ passMods' = <<>>
    /\ engPc' = "refining"
    /\ UNCHANGED <<engEntities, engDag>>
    /\ UNCHANGED <<candVars, graphVars, raceVars, rankVars, sumVars, fbVars, pipeVars>>

\* Mutation: the loop goes on after a pass that modified nothing.
LoopIgnoresModified(iteration, maxIter, mods) == iteration < maxIter

\* for iteration in range(max_iter), left by the break of an unmodified pass
LoopContinues(iteration, maxIter, mods) ==
    /\ iteration < maxIter
    /\ IF mods = <<>> THEN TRUE ELSE mods[Len(mods)] > 0

\* One pass of the for loop: every edge against every summary, then the fit
\* scores again if the pass modified an edge.
EngRefinePass ==
    /\ engPc = "refining"
    /\ LoopContinues(refIteration, refMaxIter, passMods)
    /\ LET pass == RefinePass(engDag.edges, refSummaries, refIteration)
       IN  /\ engDag' = IF pass[2] # <<>>
                        THEN FitGraphWithData(cooc, [engDag EXCEPT !.edges = pass[1]])
                        ELSE engDag
           /\ refHistory' = refHistory \o pass[2]
           /\ passMods' = Append(passMods, Len(pass[2]))
    /\ refIteration' = refIteration + 1
    /\ UNCHANGED <<engPc, engEntities, refSummaries, refMaxIter>>
    /\ UNCHANGED <<candVars, graphVars, raceVars, rankVars, sumVars, fbVars, pipeVars>>

\* dag["modification_history"] = modification_history; return dag
EngRefineReturn ==
    /\ engPc = "refining"
    /\ ~LoopContinues(refIteration, refMaxIter, passMods)
    /\ engDag' = [engDag EXCEPT !.modification_history = refHistory]
    /\ engPc' = "refined"
    /\ UNCHANGED <<engEntities, refSummaries, refMaxIter, refIteration, refHistory, passMods>>
    /\ UNCHANGED <<candVars, graphVars, raceVars, rankVars, sumVars, fbVars, pipeVars>>

EngNext == EngGenerate \/ EngFit \/ EngBeginRefine \/ EngRefinePass \/ EngRefineReturn

SpecEngine == EngInit /\ [][EngNext]_vars

\* ------------------------------------------------------ _generate_summary
MaxContentLen == 4
MaxChars == 3

\* The characters of a document: a letter, a blank and two sentence ends.
Chars == {"a", " ", ".", "!"}

Contents == UNION {[1..n -> Chars] : n \in 0..MaxContentLen}

\* str.rfind(ch): the last index (from 0) of ch, -1 when there is none
RFind(str, ch) ==
    LET at == {i \in 1..Len(str) : str[i] = ch}
    IN  IF at = {} THEN -1 ELSE (CHOOSE i \in at : \A j \in at : j <= i) - 1

RECURSIVE RStrip(_)
\* str.rstrip(): without its trailing whitespace
RStrip(str) ==
    IF str # <<>> /\ str[Len(str)] = " " THEN RStrip(SubSeq(str, 1, Len(str) - 1)) ELSE str

Ellipsis == <<".", ".", ".">>

GenerateSummary(content, maxChars) ==
    IF Len(content) <= maxChars THEN content
    ELSE LET truncated == SubSeq(content, 1, maxChars)
             last_period == Max2(Max2(RFind(truncated, "."), RFind(truncated, "!")),
                                 RFind(truncated, "?"))
         IN  IF last_period > 0 THEN SubSeq(truncated, 1, last_period + 1)
             ELSE RStrip(truncated) \o Ellipsis

SumInit ==
    /\ sumPc = "start"
    /\ sumContent \in Contents
    /\ sumMaxChars \in 1..MaxChars
    /\ sumResult = <<>>
    /\ trans = [p \in Codes \X Codes |-> NoRow]
    /\ CandIdle
    /\ GraphIdle
    /\ RaceIdle
    /\ RankIdle
    /\ EngIdle
    /\ FbIdle
    /\ PipeIdle

Summarise ==
    /\ sumPc = "start"
    /\ sumResult' = GenerateSummary(sumContent, sumMaxChars)
    /\ sumPc' = "done"
    /\ UNCHANGED <<sumContent, sumMaxChars>>
    /\ UNCHANGED <<candVars, graphVars, raceVars, rankVars, engVars, fbVars, pipeVars>>

SumNext == Summarise

SpecSummary == SumInit /\ [][SumNext]_vars

\* ------------------------------------------- predict and refine handlers
\* Two requests for one patient, each served by its own handler with its own
\* database connection.  A handler reads the latest agent_memories row in
\* autocommit mode, computes on its local dag, and writes in a transaction of
\* its own: nothing orders one handler's read after another handler's write.
DefaultCandidates == <<"C", "B">>

\* candidates_list: build_candidate_set's list, or the default progressions
PredictEntities(tm, diseases, tie) ==
    LET built == SortDescending(CollectCandidates(tm, diseases, 0, tie, <<>>))
    IN  IF built = <<>> THEN DefaultCandidates
        ELSE [i \in 1..Len(built) |-> built[i][1]]

\* SELECT dag_json ... ORDER BY last_updated DESC LIMIT 1
HasMemory == memory # <<>>

LatestDag == memory[Len(memory)]

RaceRequests ==
    {[NoRequest EXCEPT !.kind = "predict"]} \cup
    {[kind |-> "refine", action |-> a, from |-> f, to |-> t, reason |-> "r1"] :
        a \in Actions, f \in EditCodes, t \in EditCodes}

RaceInit ==
    /\ trans \in GraphTransStores
    /\ cooc \in GraphCoocStores
    /\ currentDiseases = <<"A">>
    /\ epsilon = 0
    /\ candPc = "idle"
    /\ sortedCandidates = <<>>
    /\ candidateSet = <<>>
    /\ dag = NoDag
    /\ prevDag = NoDag
    /\ prev2Dag = NoDag
    /\ lastOp = NoOp
    /\ prevOp = NoOp
    /\ nEdits = 0
    /\ memory \in {<<>>, <<FitGraphWithData(cooc, GenerateInitialDag(trans, <<"A", "B">>))>>}
    /\ predRows = Len(memory)
    /\ req \in [Procs -> RaceRequests]
    /\ rpc = [p \in Procs |-> "start"]
    /\ local = [p \in Procs |-> NoDag]
    /\ RankIdle
    /\ EngIdle
    /\ SumIdle
    /\ FbIdle
    /\ PipeIdle

\* predict, steps 2 to 5: load the stored graph or generate one, then fit
PredictLoad(p) ==
    /\ rpc[p] = "start"
    /\ req[p].kind = "predict"
    /\ \E tie \in Perms(Codes) :
          LET tieRank == [c \in Codes |-> CHOOSE i \in 1..Len(tie) : tie[i] = c]
              g == IF HasMemory THEN LatestDag
                   ELSE GenerateInitialDag(trans, PredictEntities(trans, currentDiseases, tieRank))
          IN  local' = [local EXCEPT ![p] = FitGraphWithData(cooc, g)]
    /\ rpc' = [rpc EXCEPT ![p] = "loaded"]
    /\ UNCHANGED <<memory, predRows, req, candVars, graphVars, rankVars, engVars, sumVars, fbVars, pipeVars>>

\* predict, step 7: the prediction row and the graph row, in one transaction
PredictPersist(p) ==
    /\ rpc[p] = "loaded"
    /\ req[p].kind = "predict"
    /\ memory' = Append(memory, local[p])
    /\ predRows' = predRows + 1
    /\ rpc' = [rpc EXCEPT ![p] = "done"]
    /\ UNCHANGED <<req, local, candVars, graphVars, rankVars, engVars, sumVars, fbVars, pipeVars>>

\* refine: load the stored graph or the minimal one, apply the clinician edit
RefineLoad(p) ==
    /\ rpc[p] = "start"
    /\ req[p].kind = "refine"
    /\ local' = [local EXCEPT ![p] =
          ApplyClinicianEdit(cooc, IF HasMemory THEN LatestDag ELSE NoDag,
                             req[p].action, req[p].from, req[p].to, req[p].reason)]
    /\ rpc' = [rpc EXCEPT ![p] = "loaded"]
    /\ UNCHANGED <<memory, predRows, req, candVars, graphVars, rankVars, engVars, sumVars, fbVars, pipeVars>>

\* refine: the graph row and the prediction row, in one transaction
RefinePersist(p) ==
    /\ rpc[p] = "loaded"
    /\ req[p].kind = "refine"
    /\ memory' = Append(memory, local[p])
    /\ predRows' = predRows + 1
    /\ rpc' = [rpc EXCEPT ![p] = "done"]
    /\ UNCHANGED <<req, local, candVars, graphVars, rankVars, engVars, sumVars, fbVars, pipeVars>>

RaceNext ==
    \E p \in Procs : PredictLoad(p) \/ PredictPersist(p) \/ RefineLoad(p) \/ RefinePersist(p)

SpecRace == RaceInit /\ [][RaceNext]_vars

\* ------------------------------------------------------ _parse_model_output
\* A model output is a sequence of tokens:
\*   "{" "}" "[" "]" ","   the JSON punctuation
\*   "PE"    the members  "predictions": [], "explanation": "ok"
\*   "P"     the member   "predictions": []
\*   "QPE"   the members of "PE" written with single quotes
\*   "PX"    the members  "predictions": [], "explanation": a string of
\*           LongExplanation characters
\*   "n"     a number literal
\*   "s"     the string literal "predictions and explanation"
\*   "t"     words outside any JSON syntax
Tokens == {"{", "}", "[", "]", ",", "PE", "P", "QPE", "PX", "n", "s", "t"}

RequiredKeys == {"predictions", "explanation"}

Tok(toks, i) == IF i >= 1 /\ i <= Len(toks) THEN toks[i] ELSE "EOF"

MemberKeys(tok) ==
    IF tok \in {"PE", "PX"} THEN {"predictions", "explanation"} ELSE {"predictions"}

\* What the generation can write inside its 300 tokens: an explanation longer
\* than the 800 characters the fallback trims to.
LongExplanation == 801

\* len of the string a token gives the key "explanation" ("ok" in "PE")
MemberExplanationLen(tok) == IF tok = "PX" THEN LongExplanation ELSE 2

ParseFail == [ok |-> FALSE, next |-> 0, kind |-> "none", keys |-> {}, explanation_len |-> 0]

RECURSIVE ParseMembers(_, _, _, _)
\* the members of an object from position i on, up to its closing brace; a
\* key written twice keeps its last value
ParseMembers(toks, i, keys, explLen) ==
    IF Tok(toks, i) \in {"PE", "P", "PX"}
    THEN LET got == keys \cup MemberKeys(Tok(toks, i))
             len == IF "explanation" \in MemberKeys(Tok(toks, i))
                    THEN MemberExplanationLen(Tok(toks, i)) ELSE explLen
         IN  IF Tok(toks, i + 1) = "," THEN ParseMembers(toks, i + 2, got, len)
             ELSE IF Tok(toks, i + 1) = "}"
                  THEN [ok |-> TRUE, next |-> i + 2, kind |-> "object", keys |-> got,
                        explanation_len |-> len]
                  ELSE ParseFail
    ELSE ParseFail

RECURSIVE ParseValue(_, _)
RECURSIVE ParseElements(_, _)
\* the elements of an array from position i on, up to its closing bracket
ParseElements(toks, i) ==
    LET v == ParseValue(toks, i)
    IN  IF ~v.ok THEN ParseFail
        ELSE IF Tok(toks, v.next) = "," THEN ParseElements(toks, v.next + 1)
        ELSE IF Tok(toks, v.next) = "]"
             THEN [ok |-> TRUE, next |-> v.next + 1, kind |-> "array", keys |-> {},
                   explanation_len |-> 0]
             ELSE ParseFail

\* One JSON value at position i.  keys is what `key in value` finds: the keys
\* of an object, the key names a string contains, the strings an array holds.
ParseValue(toks, i) ==
    CASE Tok(toks, i) = "n" -> [ok |-> TRUE, next |-> i + 1, kind |-> "number", keys |-> {},
                                explanation_len |-> 0]
      [] Tok(toks, i) = "s" -> [ok |-> TRUE, next |-> i + 1, kind |-> "string",
                                keys |-> RequiredKeys, explanation_len |-> 0]
      [] Tok(toks, i) = "{" ->
            IF Tok(toks, i + 1) = "}"
            THEN [ok |-> TRUE, next |-> i + 2, kind |-> "object", keys |-> {},
                  explanation_len |-> 0]
            ELSE ParseMembers(toks, i + 1, {}, 0)
      [] Tok(toks, i) = "[" ->
            IF Tok(toks, i + 1) = "]"
            THEN [ok |-> TRUE, next |-> i + 2, kind |-> "array", keys |-> {},
                  explanation_len |-> 0]
            ELSE ParseElements(toks, i + 1)
      [] OTHER -> ParseFail

\* json.loads: one value and nothing after it, else JSONDecodeError
JsonLoads(toks) ==
    LET v == ParseValue(toks, 1)
    IN  IF v.ok /\ v.next = Len(toks) + 1 THEN v ELSE ParseFail

\* _validate_output: `key in result` raises TypeError on a number
ValidateRaises(v) == v.kind = "number"

ValidateOutput(v) == RequiredKeys \subseteq v.keys

\* One stage on one piece of text: "accepted", "raise" (TypeError out of
\* _validate_output) or "pass" (JSONDecodeError, or validation said no).
TryLoads(toks) ==
    LET v == JsonLoads(toks)
    IN  IF ~v.ok THEN [status |-> "pass", kind |-> "none", keys |-> {}, explanation_len |-> 0]
        ELSE IF ValidateRaises(v)
             THEN [status |-> "raise", kind |-> v.kind, keys |-> {}, explanation_len |-> 0]
        ELSE IF ValidateOutput(v)
             THEN [status |-> "accepted", kind |-> v.kind, keys |-> v.keys,
                   explanation_len |-> v.explanation_len]
        ELSE [status |-> "pass", kind |-> "none", keys |-> {}, explanation_len |-> 0]

\* re.search(r'\{[^{}]*\}'): the leftmost "{" whose next brace is a "}"
FlatBlockStarts(toks) ==
    {i \in 1..Len(toks) :
        /\ toks[i] = "{"
        /\ \E j \in (i + 1)..Len(toks) :
              /\ toks[j] = "}"
              /\ \A k \in (i + 1)..(j - 1) : toks[k] \notin {"{", "}"}}

FlatBlock(toks) ==
    LET i == CHOOSE x \in FlatBlockStarts(toks) : \A y \in FlatBlockStarts(toks) : x <= y
        j == CHOOSE x \in (i + 1)..Len(toks) :
                 toks[x] = "}" /\ \A y \in (i + 1)..(x - 1) : toks[y] # "}"
    IN  SubSeq(toks, i, j)

\* re.search(r'\{.*\}', re.DOTALL): from the first "{" to the last "}"
Opens(toks) == {i \in 1..Len(toks) : toks[i] = "{"}

Closes(toks) == {i \in 1..Len(toks) : toks[i] = "}"}

HasGreedyBlock(toks) == \E i \in Opens(toks), j \in Closes(toks) : i < j

GreedyBlock(toks) ==
    LET i == CHOOSE x \in Opens(toks) : \A y \in Opens(toks) : x <= y
        j == CHOOSE x \in Closes(toks) : \A y \in Closes(toks) : y <= x
    IN  SubSeq(toks, i, j)

RECURSIVE DropTrailingCommas(_)
\* re.sub(r',\s*}', '}') and re.sub(r',\s*]', ']')
DropTrailingCommas(toks) ==
    IF toks = <<>> THEN <<>>
    ELSE IF Head(toks) = "," /\ Tok(toks, 2) \in {"}", "]"}
         THEN DropTrailingCommas(Tail(toks))
         ELSE <<Head(toks)>> \o DropTrailingCommas(Tail(toks))

\* _clean_invalid_tokens: trailing commas, then text.replace("'", '"')
CleanInvalidTokens(toks) ==
    LET t1 == DropTrailingCommas(toks)
    IN  [i \in 1..Len(t1) |-> IF t1[i] = "QPE" THEN "PE" ELSE t1[i]]

NoResult == [status |-> "none", kind |-> "none", keys |-> {}, explanation_len |-> 0]

Stage4(toks) ==
    LET cleaned == CleanInvalidTokens(toks)
    IN  IF cleaned = toks THEN NoResult
        ELSE LET r1 == TryLoads(cleaned)
             IN  IF r1.status # "pass" THEN r1
                 ELSE IF HasGreedyBlock(cleaned)
                      THEN LET r2 == TryLoads(GreedyBlock(cleaned))
                           IN  IF r2.status # "pass" THEN r2 ELSE NoResult
                      ELSE NoResult

Stage3(toks) ==
    IF HasGreedyBlock(toks)
    THEN LET r == TryLoads(GreedyBlock(toks))
         IN  IF r.status # "pass" THEN r ELSE Stage4(toks)
    ELSE Stage4(toks)

Stage2(toks) ==
    IF FlatBlockStarts(toks) # {}
    THEN LET r == TryLoads(FlatBlock(toks))
         IN  IF r.status # "pass" THEN r ELSE Stage3(toks)
    ELSE Stage3(toks)

\* status "accepted" (a value is returned), "none" (None is returned) or
\* "raise" (TypeError leaves the function)
ParseModelOutput(toks) ==
    LET r == TryLoads(toks)
    IN  IF r.status # "pass" THEN r ELSE Stage2(toks)

\* --------------------------------------------------- _deterministic_fallback
WTransition == 6
WDocument == 3
WClinician == 1
BoostValue == 2000
TopN == 10
EvidenceN == 5
ExplanationMax == 800
SnippetMax == 150
CommentMax == 100

\* len of "Based on transition probability (0.50) and document evidence
\* (0.80),  is the most likely progression. " around the code
TemplateLen == 102
\* len("Clinician input considered: ")
CommentPrefixLen == 28
\* len("No clear progression identified.")
NoProgressionLen == 32
\* len("No candidate diseases identified.")
NoCandidatesLen == 33

\* The clinician comments of the model: none, one naming no code and no
\* keyword, one holding the keyword "kidney", one naming code "A".
Comments == {"", "note", "kidney", "see a"}

CommentKeyword(comment) == comment = "kidney"

\* len(clinician_comment)
CommentLen(comment) ==
    CASE comment = "" -> 0
      [] comment = "note" -> 4
      [] comment = "kidney" -> 6
      [] comment = "see a" -> 5

\* len(disease_code): the codes of the model are single letters
CodeLen(code) == 1

\* len of summary.get("summary", summary.get("snippet", ""))
SummaryTextLen(summary) ==
    IF "summary_len" \in DOMAIN summary THEN summary.summary_len
    ELSE IF "snippet_len" \in DOMAIN summary THEN summary.snippet_len
    ELSE 0

CommentNames(comment, code) == comment = "see a" /\ Lower(code) = "a"

\* max similarity over the summaries whose disease_code equals code, else 0
DocSimilarity(summaries, code) ==
    LET sims == {summaries[i].similarity : i \in {k \in 1..Len(summaries) :
                                                     summaries[k].disease_code = code}}
    IN  IF sims = {} THEN 0 ELSE CHOOSE m \in sims : \A x \in sims : x <= m

ClinicianBoost(comment, code) ==
    IF comment # "" /\ (CommentNames(comment, code) \/ CommentKeyword(comment))
    THEN BoostValue ELSE 0

\* max weight over the edges touching code, else 0
DagScore(g, code) ==
    LET ws == {g.edges[i].weight : i \in {k \in 1..Len(g.edges) :
                                     g.edges[k].to = code \/ g.edges[k].from = code}}
    IN  IF ws = {} THEN 0 ELSE CHOOSE m \in ws : \A x \in ws : x <= m

\* round(x, 3) of a value of x ten-thousandths, in thousandths
Round3(x) == (x + 5) \div 10

\* Mutation: the weights of the transition score and the similarity are swapped.
FinalScoreSwapped(t, d, b) == (WDocument * t + WTransition * d + WClinician * b + 50) \div 100

\* round(0.6*t + 0.3*d + 0.1*b, 3) in thousandths; t, d, b in ten-thousandths
FinalScore(t, d, b) == (WTransition * t + WDocument * d + WClinician * b + 50) \div 100

\* Mutation: the graph's support of the code is added into the final score.
ScoreCandidateWithDag(cand, g, summaries, comment) ==
    LET d == DocSimilarity(summaries, cand[1])
        b == ClinicianBoost(comment, cand[1])
    IN  [code |-> cand[1],
         score |-> FinalScore(cand[2], d, b + DagScore(g, cand[1])),
         transition_score |-> Round3(cand[2]),
         doc_similarity |-> Round3(d),
         dag_score |-> Round3(DagScore(g, cand[1])),
         clinician_boost |-> Round3(b),
         rank |-> 0]

ScoreCandidate(cand, g, summaries, comment) ==
    LET d == DocSimilarity(summaries, cand[1])
        b == ClinicianBoost(comment, cand[1])
    IN  [code |-> cand[1],
         score |-> FinalScore(cand[2], d, b),
         transition_score |-> Round3(cand[2]),
         doc_similarity |-> Round3(d),
         dag_score |-> Round3(DagScore(g, cand[1])),
         clinician_boost |-> Round3(b),
         rank |-> 0]

RECURSIVE InsertByScore(_, _)
InsertByScore(sorted, c) ==
    IF sorted = <<>> THEN <<c>>
    ELSE IF c.score > Head(sorted).score
         THEN <<c>> \o sorted
         ELSE <<Head(sorted)>> \o InsertByScore(Tail(sorted), c)

\* Mutation: the scored candidates are left in the order of the input.
KeepOrder(items) == items

RECURSIVE SortByScore(_)
\* scored_candidates.sort(key=lambda x: x["score"], reverse=True), stable
SortByScore(items) ==
    IF items = <<>> THEN <<>>
    ELSE InsertByScore(SortByScore(SubSeq(items, 1, Len(items) - 1)), items[Len(items)])

FirstN(s, n) == SubSeq(s, 1, Min2(Len(s), n))

DeterministicFallback(cands, g, summaries, comment) ==
    LET scored == [i \in 1..Len(cands) |-> ScoreCandidate(cands[i], g, summaries, comment)]
        sorted == SortByScore(scored)
        ranked == [i \in 1..Len(sorted) |-> [sorted[i] EXCEPT !.rank = i]]
    IN  [path |-> "deterministic",
         keys |-> {"predictions", "explanation", "evidence", "dag", "fallback"},
         predictions |-> FirstN(ranked, TopN),
         explanation |-> IF comment # "" THEN "template+comment" ELSE "template",
         explanation_len |->
             IF cands = <<>> THEN NoProgressionLen
             ELSE Min2(ExplanationMax,
                       TemplateLen + CodeLen(sorted[1].code)
                           + (IF comment # ""
                              THEN CommentPrefixLen + Min2(CommentLen(comment), CommentMax)
                              ELSE 0)),
         evidence |-> FirstN(summaries, EvidenceN),
         snippet_lens |-> [i \in 1..Min2(Len(summaries), EvidenceN) |->
                              Min2(SummaryTextLen(summaries[i]), SnippetMax)],
         dag |-> g,
         fallback |-> TRUE]

\* ----------------------------------- _deterministic_fallback as a function
\* More candidates than the fallback returns, in no order of score; the
\* handlers build the list from the graph's edges, so codes repeat.
ManyCandidates ==
    <<<<"A", 1000>>, <<"B", 9000>>, <<"C", 2000>>, <<"A", 8000>>, <<"B", 3000>>,
      <<"C", 7000>>, <<"A", 4000>>, <<"B", 6000>>, <<"C", 5000>>, <<"A", 500>>,
      <<"B", 9500>>, <<"C", 9500>>>>

FbCandidates ==
    {FirstN(ManyCandidates, n) : n \in 0..Len(ManyCandidates)}
        \cup {<<<<"A", 2500>>, <<"B", 5000>>>>, <<<<"C", WOne>>, <<"C", 0>>>>}

FbSummaries ==
    {<<>>,
     <<[doc_id |-> 1, disease_code |-> "B", similarity |-> 8000]>>,
     <<[doc_id |-> 1, disease_code |-> "A", similarity |-> 9000],
       [doc_id |-> 2, disease_code |-> "C", similarity |-> 6000],
       [doc_id |-> 3, disease_code |-> "A", similarity |-> 3000]>>}

\* Graphs over the same nodes that differ in their edges and weights.
FbGraphs ==
    {[NoDag EXCEPT !.nodes = <<"A", "B", "C">>, !.edges = es] :
        es \in {<<>>, <<NewEdge("A", "B", 7500)>>, <<NewEdge("A", "B", 2500)>>,
                <<NewEdge("B", "A", WOne)>>,
                <<NewEdge("A", "B", 2500), NewEdge("B", "C", 9000)>>}}

FbInit ==
    /\ fbPc = "start"
    /\ fbIn \in [candidates : FbCandidates, graph : FbGraphs,
                 summaries : FbSummaries, comment : Comments]
    /\ fbResult = NoResultYet
    /\ trans = [p \in Codes \X Codes |-> NoRow]
    /\ CandIdle
    /\ GraphIdle
    /\ RaceIdle
    /\ RankIdle
    /\ EngIdle
    /\ SumIdle
    /\ PipeIdle

Fallback ==
    /\ fbPc = "start"
    /\ fbResult' = DeterministicFallback(fbIn.candidates, fbIn.graph,
                                         fbIn.summaries, fbIn.comment)
    /\ fbPc' = "returned"
    /\ UNCHANGED fbIn
    /\ UNCHANGED <<candVars, graphVars, raceVars, rankVars, engVars, sumVars, pipeVars>>

FbNext == Fallback

SpecFallback == FbInit /\ [][FbNext]_vars

\* ------------------------------------------------------- rank_and_explain
\* Mutation: the empty-candidates check is missing and the call falls through
\* to the deterministic fallback.
NoCandidatesAsFallback(g) == DeterministicFallback(<<>>, g, <<>>, "")

NoCandidatesResult(g) ==
    [path |-> "empty",
     keys |-> {"predictions", "explanation", "evidence", "dag", "fallback"},
     predictions |-> <<>>, explanation |-> "No candidate diseases identified.",
     explanation_len |-> NoCandidatesLen,
     evidence |-> <<>>, snippet_lens |-> <<>>, dag |-> g, fallback |-> FALSE]

\* result["dag"] = dag; result["fallback"] = False; return result
ModelResult(parsed, g) ==
    [path |-> "model", keys |-> parsed.keys \cup {"dag", "fallback"},
     predictions |-> <<>>, explanation |-> "model",
     explanation_len |-> parsed.explanation_len,
     evidence |-> <<>>, snippet_lens |-> <<>>, dag |-> g, fallback |-> FALSE]

\* Mutation: a TypeError raised while parsing or storing leaves the call.
AfterGenerationUncaught(parsed, cands, g, summaries, comment) ==
    IF parsed.status = "accepted" /\ parsed.kind = "object"
    THEN ModelResult(parsed, g)
    ELSE IF parsed.status = "none"
         THEN DeterministicFallback(cands, g, summaries, comment)
         ELSE [NoResultYet EXCEPT !.path = "exception"]

\* The try block after the model has answered: an accepted object is returned;
\* an accepted string or array fails at result["dag"] = dag with TypeError,
\* which `except Exception` catches like the TypeError of _validate_output.
AfterGeneration(parsed, cands, g, summaries, comment) ==
    IF parsed.status = "accepted" /\ parsed.kind = "object"
    THEN ModelResult(parsed, g)
    ELSE DeterministicFallback(cands, g, summaries, comment)

Texts == UNION {[1..n -> Tokens] : n \in 0..MaxTextLen}

RankCandidates ==
    {<<>>, <<<<"A", 5000>>>>, <<<<"A", 2500>>, <<"B", 5000>>>>}

RankSummaries ==
    {<<>>, <<[doc_id |-> 1, disease_code |-> "B", similarity |-> 8000,
               summary_len |-> 200]>>}

RankGraphs ==
    {[NoDag EXCEPT !.nodes = <<"A", "B">>, !.edges = <<NewEdge("A", "B", 7500)>>]}

RankInit ==
    /\ trans = [p \in Codes \X Codes |-> NoRow]
    /\ CandIdle
    /\ GraphIdle
    /\ RaceIdle
    /\ rankPc = "start"
    /\ rankIn \in [candidates : RankCandidates, graph : RankGraphs,
                   summaries : RankSummaries, comment : {"", "kidney"}]
    /\ genOutcome = "none"
    /\ modelOutput = <<>>
    /\ waited = 0
    /\ rankResult = NoResultYet
    /\ EngIdle
    /\ SumIdle
    /\ FbIdle
    /\ PipeIdle

\* if not candidates: return the fixed empty result
RankNoCandidates ==
    /\ rankPc = "start"
    /\ rankIn.candidates = <<>>
    /\ rankResult' = NoCandidatesResult(rankIn.graph)
    /\ rankPc' = "returned"
    /\ UNCHANGED <<rankIn, genOutcome, modelOutput, waited>>
    /\ UNCHANGED <<candVars, graphVars, raceVars, engVars, sumVars, fbVars, pipeVars>>

\* _build_prompt, then the call of self.model.generate is entered
BeginGenerate ==
    /\ rankPc = "start"
    /\ rankIn.candidates # <<>>
    /\ rankPc' = "generating"
    /\ UNCHANGED <<rankIn, genOutcome, modelOutput, waited, rankResult>>
    /\ UNCHANGED <<candVars, graphVars, raceVars, engVars, sumVars, fbVars, pipeVars>>

\* Time passes while self.model.generate has not returned: the call takes no
\* timeout argument and nothing else bounds the wait.
GenerateStillRunning ==
    /\ rankPc = "generating"
    /\ waited < MaxWait
    /\ waited' = waited + 1
    /\ UNCHANGED <<rankPc, rankIn, genOutcome, modelOutput, rankResult>>
    /\ UNCHANGED <<candVars, graphVars, raceVars, engVars, sumVars, fbVars, pipeVars>>

\* The generation raises: caught by `except Exception`, then the fallback.
GenerateRaises ==
    /\ rankPc = "generating"
    /\ genOutcome' = "raised"
    /\ rankResult' = DeterministicFallback(rankIn.candidates, rankIn.graph,
                                           rankIn.summaries, rankIn.comment)
    /\ rankPc' = "returned"
    /\ UNCHANGED <<rankIn, modelOutput, waited>>
    /\ UNCHANGED <<candVars, graphVars, raceVars, engVars, sumVars, fbVars, pipeVars>>

\* The generation returns a text: parse it, return it or fall back.
GenerateReturns ==
    /\ rankPc = "generating"
    /\ \E text \in Texts :
          /\ modelOutput' = text
          /\ rankResult' = AfterGeneration(ParseModelOutput(text), rankIn.candidates,
                                           rankIn.graph, rankIn.summaries, rankIn.comment)
    /\ genOutcome' = "text"
    /\ rankPc' = "returned"
    /\ UNCHANGED <<rankIn, waited>>
    /\ UNCHANGED <<candVars, graphVars, raceVars, engVars, sumVars, fbVars, pipeVars>>

RankNext ==
    RankNoCandidates \/ BeginGenerate \/ GenerateStillRunning \/ GenerateRaises \/ GenerateReturns

SpecRank == RankInit /\ [][RankNext]_vars

\* ------------------------------------ predict and refine, step by step
\* The handlers with their storage: a request is loaded and computed in one
\* step (reads in autocommit mode), and its transaction either commits or
\* fails at one of its writes.  Generation is unavailable: rank_and_explain
\* ends in the deterministic fallback.
MaxRequests == 3
CacheLimit == 10
TopK == 10
EntityLimit == 10
DefaultScore == 5000

\* The stores of the pipeline: the patient's last visit holds "A"; rows
\* A->B (0.5), A->C (0.25), B->C (0.5); B and C occur together.
PipeTrans ==
    [p \in Codes \X Codes |->
        CASE p = <<"A", "B">> -> 2
          [] p = <<"A", "C">> -> 1
          [] p = <<"B", "C">> -> 2
          [] OTHER -> NoRow]

PipeCooc ==
    [p \in Codes \X Codes |-> IF p = <<"B", "C">> THEN <<1, 2>> ELSE NoCooc]

\* retrieve_and_summarize: the documents by similarity to the query, each
\* with the disease code of its document; the query of predict is built from
\* the history and the candidates, the query of refine from the graph.
RetrieveAndSummarize(query) ==
    FirstN(<<[doc_id |-> 1, disease_code |-> "C",
              similarity |-> IF query = "predict" THEN 8000 ELSE 7000,
              summary_len |-> 200],
             [doc_id |-> 2, disease_code |-> "B", similarity |-> 6000,
              summary_len |-> 120]>>, TopK)

RECURSIVE InsertBySimilarity(_, _)
InsertBySimilarity(sorted, r) ==
    IF sorted = <<>> THEN <<r>>
    ELSE IF r.similarity > Head(sorted).similarity
         THEN <<r>> \o sorted
         ELSE <<Head(sorted)>> \o InsertBySimilarity(Tail(sorted), r)

RECURSIVE SortBySimilarity(_)
\* ORDER BY similarity DESC
SortBySimilarity(rows) ==
    IF rows = <<>> THEN <<>>
    ELSE InsertBySimilarity(SortBySimilarity(SubSeq(rows, 1, Len(rows) - 1)), rows[Len(rows)])

\* The cache rows of (patient, last visit) as summaries: every row is given
\* the disease_code "General Medical Knowledge".
CachedSummaries(cache) ==
    LET rows == FirstN(SortBySimilarity(cache), CacheLimit)
    IN  [i \in 1..Len(rows) |->
            [doc_id |-> rows[i].doc_id,
             disease_code |-> "General Medical Knowledge",
             similarity |-> rows[i].similarity,
             summary_len |-> rows[i].summary_len]]

\* Mutation: the cache is read whatever the request carries.
ReadsCacheAlways(comment) == TRUE

\* if not request.clinician_comment
ReadsCache(comment) == comment = ""

\* (edge["to"], edge.get("weight", 0.5)) per edge, else the nodes with 0.5
CandidatesWithScores(g) ==
    IF g.edges # <<>>
    THEN [i \in 1..Len(g.edges) |-> <<g.edges[i].to, g.edges[i].weight>>]
    ELSE [i \in 1..Len(g.nodes) |-> <<g.nodes[i], DefaultScore>>]

\* refine: the edges' targets, else the two diseases of the feedback
CandidateTuples(g, f, t) ==
    IF g.edges # <<>>
    THEN [i \in 1..Len(g.edges) |-> <<g.edges[i].to, g.edges[i].weight>>]
    ELSE <<<<f, DefaultScore>>, <<t, DefaultScore>>>>

\* rank_and_explain with the generation raising
RankWithoutModel(cands, g, summaries, comment) ==
    IF cands = <<>> THEN NoCandidatesResult(g)
    ELSE DeterministicFallback(cands, g, summaries, comment)

PredictedCode(result) ==
    IF result.predictions # <<>> THEN result.predictions[1].code ELSE "UNKNOWN"

\* The requests of the pipeline; a refine's reason is its clinician comment
\* for the ranking, its clinician_comment field is left out.
PipeRequests ==
    {[kind |-> "predict", comment |-> c, action |-> "none", from |-> "none", to |-> "none"] :
        c \in {"", "note"}} \cup
    {[kind |-> "refine", comment |-> "", action |-> a, from |-> "C", to |-> "A"] :
        a \in {"add_edge", "remove_edge"}}

RefineReason == "note"

\* What the handler of request r computes before its transaction, from the
\* storage as it is now.
Compute(r) ==
    LET existing == pipeStore.mem # <<>>
        latest == pipeStore.mem[Len(pipeStore.mem)].dag
        cached == IF ReadsCache(r.comment) THEN CachedSummaries(pipeStore.cache) ELSE <<>>
        ghost == [req |-> r, status |-> "loaded", loadedExisting |-> existing,
                  cacheAtLoad |-> Len(pipeStore.cache),
                  readCache |-> ReadsCache(r.comment),
                  retrieved |-> cached = <<>>,
                  seen |-> {i \in 1..Len(calls) : calls[i].status = "ok"}]
    IN  IF r.kind = "predict"
        THEN {LET tieRank == [c \in Codes |-> CHOOSE i \in 1..Len(tie) : tie[i] = c]
                  g == FitGraphWithData(cooc,
                           IF existing THEN latest
                           ELSE GenerateInitialDag(trans,
                                    FirstN(PredictEntities(trans, currentDiseases, tieRank),
                                           EntityLimit)))
                  summaries == IF cached # <<>> THEN cached ELSE RetrieveAndSummarize("predict")
              IN  [ghost EXCEPT !.status = "loaded"] @@
                  [dag |-> g, summaries |-> summaries,
                   result |-> RankWithoutModel(CandidatesWithScores(g), g, summaries, r.comment)]
              : tie \in Perms(Codes)}
        ELSE {LET g == ApplyClinicianEdit(cooc, IF existing THEN latest ELSE NoDag,
                                          r.action, r.from, r.to, RefineReason)
                  summaries == IF cached # <<>> THEN cached ELSE RetrieveAndSummarize("refine")
              IN  ghost @@
                  [dag |-> g, summaries |-> summaries,
                   result |-> RankWithoutModel(CandidateTuples(g, r.from, r.to), g,
                                               summaries, RefineReason)]}

\* The writes of a request's transaction, in the order of the handler.
CacheWrites(rid, c) ==
    [i \in 1..Len(c.summaries) |->
        [table |-> "cache",
         row |-> [rid |-> rid, doc_id |-> c.summaries[i].doc_id,
                  similarity |-> c.summaries[i].similarity,
                  summary_len |-> c.summaries[i].summary_len]]]

Writes(rid) ==
    LET c == calls[rid]
        pred == [table |-> "preds", row |-> [rid |-> rid, code |-> PredictedCode(c.result)]]
        mem == [table |-> "mem", row |-> [rid |-> rid, dag |-> c.dag]]
    IN  IF c.req.kind = "predict"
        THEN <<pred, mem>> \o (IF c.retrieved THEN CacheWrites(rid, c) ELSE <<>>)
        ELSE <<mem, pred>>

RECURSIVE ApplyWrites(_, _)
ApplyWrites(store, ws) ==
    IF ws = <<>> THEN store
    ELSE LET w == Head(ws)
             next == CASE w.table = "preds" -> [store EXCEPT !.preds = Append(@, w.row)]
                       [] w.table = "mem" -> [store EXCEPT !.mem = Append(@, w.row)]
                       [] w.table = "cache" -> [store EXCEPT !.cache = Append(@, w.row)]
         IN  ApplyWrites(next, Tail(ws))

\* Mutation: the rollback leaves the writes made before the failure.
RollbackKeeps(before, during) == during

\* conn.rollback(): the storage as it was at BEGIN
Rollback(before, during) == before

PipeInit ==
    /\ trans = PipeTrans
    /\ cooc = PipeCooc
    /\ currentDiseases = <<"A">>
    /\ epsilon = 0
    /\ candPc = "idle"
    /\ sortedCandidates = <<>>
    /\ candidateSet = <<>>
    /\ dag = NoDag
    /\ prevDag = NoDag
    /\ prev2Dag = NoDag
    /\ lastOp = NoOp
    /\ prevOp = NoOp
    /\ nEdits = 0
    /\ RaceIdle
    /\ RankIdle
    /\ EngIdle
    /\ SumIdle
    /\ FbIdle
    /\ pipeStore = [mem |-> <<>>, preds |-> <<>>, cache |-> <<>>]
    /\ calls = <<>>
    /\ hrid = [p \in Procs |-> 0]

\* A handler receives a request, reads the storage and computes its result.
Receive(p) ==
    /\ hrid[p] = 0
    /\ Len(calls) < MaxRequests
    /\ \E r \in PipeRequests : \E c \in Compute(r) : calls' = Append(calls, c)
    /\ hrid' = [hrid EXCEPT ![p] = Len(calls) + 1]
    /\ UNCHANGED pipeStore
    /\ UNCHANGED <<candVars, graphVars, raceVars, rankVars, engVars, sumVars, fbVars>>

\* with transaction(conn): every write succeeds, conn.commit()
Commit(p) ==
    /\ hrid[p] # 0
    /\ pipeStore' = ApplyWrites(pipeStore, Writes(hrid[p]))
    /\ calls' = [calls EXCEPT ![hrid[p]].status = "ok"]
    /\ hrid' = [hrid EXCEPT ![p] = 0]
    /\ UNCHANGED <<candVars, graphVars, raceVars, rankVars, engVars, sumVars, fbVars>>

\* One write of the transaction raises after k writes were made:
\* conn.rollback(), and the handler answers with HTTP 500.
WriteFails(p) ==
    /\ hrid[p] # 0
    /\ \E k \in 0..(Len(Writes(hrid[p])) - 1) :
          pipeStore' = Rollback(pipeStore,
                                ApplyWrites(pipeStore, FirstN(Writes(hrid[p]), k)))
    /\ calls' = [calls EXCEPT ![hrid[p]].status = "error"]
    /\ hrid' = [hrid EXCEPT ![p] = 0]
    /\ UNCHANGED <<candVars, graphVars, raceVars, rankVars, engVars, sumVars, fbVars>>

PipeNext == \E p \in Procs : Receive(p) \/ Commit(p) \/ WriteFails(p)

SpecPipe == PipeInit /\ [][PipeNext]_vars

\* ---------------------------------------------------------- claims C1, C2
\* The probabilities of the rows that qualify target c: one per current
\* disease holding a transition to c above epsilon.
QualifyingProbs(c) ==
    {trans[<<d, c>>] : d \in {x \in Range(currentDiseases) :
                                  trans[<<x, c>>] # NoRow /\ trans[<<x, c>>] > epsilon}}

SetMax(S) == CHOOSE m \in S : \A x \in S : x <= m

\* C1: the list returned by buildCandidateSet holds no code twice, holds only
\* targets whose retained probability (that of a stored row of a current
\* disease) is strictly greater than epsilon, and is ordered by that
\* probability, non-increasing.
C1_CandidateSetContract ==
    candPc = "built" =>
        /\ Len(candidateSet) = Len(sortedCandidates)
        /\ \A i, j \in 1..Len(candidateSet) : i # j => candidateSet[i] # candidateSet[j]
        /\ \A i \in 1..Len(candidateSet) :
              /\ sortedCandidates[i][1] = candidateSet[i]
              /\ sortedCandidates[i][2] > epsilon
              /\ sortedCandidates[i][2] \in QualifyingProbs(candidateSet[i])
        /\ \A i, j \in 1..Len(candidateSet) :
              i < j => sortedCandidates[i][2] >= sortedCandidates[j][2]

\* Witness: two candidates were returned while a stored row at or below
\* epsilon was filtered out.
C1_Witness ==
    /\ candPc = "built"
    /\ Len(candidateSet) >= 2
    /\ \E d \in Range(currentDiseases), t \in Codes :
          trans[<<d, t>>] # NoRow /\ trans[<<d, t>>] <= epsilon

\* C2: when several current diseases have a transition to the same target,
\* the value retained for it is the maximum of those probabilities.
C2_RetainsMaximum ==
    candPc = "built" =>
        \A i \in 1..Len(sortedCandidates) :
            sortedCandidates[i][2] = SetMax(QualifyingProbs(sortedCandidates[i][1]))

\* Witness: both current diseases reach one target with different
\* probabilities, the smaller one seen first, and the list is built.
C2_Witness ==
    /\ candPc = "built"
    /\ Len(currentDiseases) = 2
    /\ \E c \in Codes :
          /\ Cardinality(QualifyingProbs(c)) = 2
          /\ trans[<<currentDiseases[1], c>>] < trans[<<currentDiseases[2], c>>]
          /\ trans[<<currentDiseases[1], c>>] > epsilon

\* ------------------------------------------------------ claims C6 .. C10
RemoveAt(s, k) == [i \in 1..(Len(s) - 1) |-> IF i < k THEN s[i] ELSE s[i + 1]]

\* C6: add_edge(from,to) followed by remove_edge(from,to) yields exactly the
\* edge list the graph had before the add_edge, also when the graph already
\* held edges from->to.
C6_AddThenRemoveRestores ==
    (/\ lastOp.action = "remove_edge"
     /\ prevOp.action = "add_edge"
     /\ lastOp.from = prevOp.from
     /\ lastOp.to = prevOp.to)
        => dag.edges = prev2Dag.edges

\* C7: remove_edge(from,to) removes exactly one edge, the first in list order
\* matching (from,to); all other edges, later duplicates included, stay in
\* their order; with no match the edge list is unchanged.
C7_RemoveExactlyFirst ==
    lastOp.action = "remove_edge" =>
        IF Matches(prevDag.edges, lastOp.from, lastOp.to) = {}
        THEN dag.edges = prevDag.edges
        ELSE dag.edges = RemoveAt(prevDag.edges, FirstMatch(prevDag.edges, lastOp.from, lastOp.to))

SameButFit(e1, e2) ==
    /\ e1.from = e2.from
    /\ e1.to = e2.to
    /\ e1.weight = e2.weight
    /\ e1.clinician_added = e2.clinician_added
    /\ e1.clinician_reversed = e2.clinician_reversed

\* C8: reverse_edge(from,to) changes at most one edge: the first edge matching
\* (from,to) gets its endpoints swapped, clinicianReversed = true and the given
\* reason; the number of edges and the endpoints, weight and flags of every
\* other edge are unchanged; with no match no edge changes and no node is added.
C8_ReverseTouchesFirstMatchOnly ==
    lastOp.action = "reverse_edge" =>
        /\ Len(dag.edges) = Len(prevDag.edges)
        /\ IF Matches(prevDag.edges, lastOp.from, lastOp.to) = {}
           THEN /\ \A i \in 1..Len(dag.edges) : SameButFit(dag.edges[i], prevDag.edges[i])
                /\ dag.nodes = prevDag.nodes
           ELSE LET k == FirstMatch(prevDag.edges, lastOp.from, lastOp.to)
                IN  /\ dag.edges[k].from = lastOp.to
                    /\ dag.edges[k].to = lastOp.from
                    /\ dag.edges[k].clinician_reversed
                    /\ dag.edges[k].reason = lastOp.reason
                    /\ dag.edges[k].weight = prevDag.edges[k].weight
                    /\ \A i \in 1..Len(dag.edges) :
                          i # k => SameButFit(dag.edges[i], prevDag.edges[i])

\* Witness: a reverse_edge acted on a graph holding the pair twice, the first
\* of them with another reason than the one given.
C8_Witness ==
    /\ lastOp.action = "reverse_edge"
    /\ lastOp.from # lastOp.to
    /\ Cardinality(Matches(prevDag.edges, lastOp.from, lastOp.to)) >= 2
    /\ prevDag.edges[FirstMatch(prevDag.edges, lastOp.from, lastOp.to)].reason # lastOp.reason

\* C9: add_edge(from,to,reason) appends exactly one edge {from, to, weight
\* 0.8, clinicianAdded = true, reason} at the end of the edge list, leaves the
\* existing edges unchanged, and afterwards from and to are both nodes, a node
\* being created only when it was missing before the call.
C9_AddEdgeAppendsOne ==
    lastOp.action = "add_edge" =>
        LET n == Len(prevDag.edges)
            m == Len(prevDag.nodes)
        IN  /\ Len(dag.edges) = n + 1
            /\ dag.edges[n + 1].from = lastOp.from
            /\ dag.edges[n + 1].to = lastOp.to
            /\ dag.edges[n + 1].weight = ClinicianWeight
            /\ dag.edges[n + 1].clinician_added
            /\ dag.edges[n + 1].reason = lastOp.reason
            /\ \A i \in 1..n : dag.edges[i] = prevDag.edges[i]
            /\ lastOp.from \in Range(dag.nodes)
            /\ lastOp.to \in Range(dag.nodes)
            /\ Len(dag.nodes) >= m
            /\ \A i \in 1..m : dag.nodes[i] = prevDag.nodes[i]
            /\ \A i \in (m + 1)..Len(dag.nodes) :
                  /\ dag.nodes[i] \in {lastOp.from, lastOp.to}
                  /\ dag.nodes[i] \notin Range(prevDag.nodes)

\* Witness: an add_edge acted on a graph that held edges and the from node
\* but not the to node.
C9_Witness ==
    /\ lastOp.action = "add_edge"
    /\ Len(prevDag.edges) >= 1
    /\ lastOp.from \in Range(prevDag.nodes)
    /\ lastOp.to \notin Range(prevDag.nodes)
    /\ Len(dag.nodes) = Len(prevDag.nodes) + 1

\* C10: no graph reachable from generateInitialDag through iterativeRefine and
\* applyClinicianEdit calls holds an edge whose from equals its to.
C10_NoSelfLoops ==
    \A i \in 1..Len(dag.edges) : dag.edges[i].from # dag.edges[i].to

\* ---------------------------------------------------------------- claim C3
HasEdge(g, f, t) == \E i \in 1..Len(g.edges) : g.edges[i].from = f /\ g.edges[i].to = t

\* Another request takes the pair f->t out of the graph again.
Undone(p, f, t) ==
    \E q \in Procs \ {p} :
        /\ req[q].kind = "refine"
        /\ req[q].action \in {"remove_edge", "reverse_edge"}
        /\ req[q].from = f
        /\ req[q].to = t

\* C3: when two requests for one patient (two refines, or a predict and a
\* refine) run concurrently, the latest persisted graph after both have
\* completed holds the edge of every completed add_edge that no other request
\* removed or reversed: no clinician edit is lost.
C3_NoLostUpdate ==
    (\A p \in Procs : rpc[p] = "done") =>
        \A p \in Procs :
            (/\ req[p].kind = "refine"
             /\ req[p].action = "add_edge"
             /\ ~Undone(p, req[p].from, req[p].to))
                => HasEdge(LatestDag, req[p].from, req[p].to)

\* ------------------------------------------------------------ claims C4, C5
\* C4: for non-empty candidates rankAndExplain never surfaces a generation
\* error or a parse failure: whenever the generation raises or the parse
\* cascade yields no accepted result, the call returns the deterministic-path
\* Prediction with fallback = true, and it returns fallback = false only when
\* a model output was accepted.
C4_FailuresFallBack ==
    (rankPc = "returned" /\ rankIn.candidates # <<>>) =>
        /\ rankResult.path \in {"model", "deterministic"}
        /\ (genOutcome = "raised" \/ ParseModelOutput(modelOutput).status # "accepted")
              => /\ rankResult.path = "deterministic"
                 /\ rankResult.fallback
                 /\ Len(rankResult.predictions) = Len(rankIn.candidates)
        /\ ~rankResult.fallback
              => /\ genOutcome = "text"
                 /\ ParseModelOutput(modelOutput).status = "accepted"
                 /\ rankResult.path = "model"

\* Witness: the model answered a number, _validate_output raised TypeError on
\* it, and the call returned the deterministic fallback.
C4_Witness ==
    /\ rankPc = "returned"
    /\ rankIn.candidates # <<>>
    /\ genOutcome = "text"
    /\ ParseModelOutput(modelOutput).status = "raise"
    /\ rankResult.fallback
    /\ rankResult.path = "deterministic"

\* The timeout the design asks for, in the time units of `waited`.
GenTimeout == MaxWait - 1

\* C5: a rankAndExplain call is never left waiting for a generation that has
\* not answered within its timeout: at the timeout it stops waiting and
\* returns the deterministic fallback.
C5_NotBlockedPastTimeout ==
    rankPc = "generating" => waited <= GenTimeout

\* ---------------------------------------------------- claims C11 to C16
\* C11: for a list of distinct entities generateInitialDag returns exactly
\* one node per entity, and holds an edge a->b if and only if a and b are
\* distinct entities and the transition store holds a probability for (a,b)
\* strictly greater than 0; that edge's weight is the stored probability.
C11_InitialDagContract ==
    (engPc = "generated" /\ Cardinality(Range(engEntities)) = Len(engEntities)) =>
        /\ Len(engDag.nodes) = Len(engEntities)
        /\ Range(engDag.nodes) = Range(engEntities)
        /\ \A a, b \in Codes :
              (\E i \in 1..Len(engDag.edges) :
                   engDag.edges[i].from = a /\ engDag.edges[i].to = b)
              <=> /\ a # b
                  /\ a \in Range(engEntities)
                  /\ b \in Range(engEntities)
                  /\ trans[<<a, b>>] # NoRow
                  /\ trans[<<a, b>>] > 0
        /\ \A i \in 1..Len(engDag.edges) :
              engDag.edges[i].weight =
                  ProbToWeight(trans[<<engDag.edges[i].from, engDag.edges[i].to>>])

\* Witness: a graph over three entities was generated with at least two
\* edges, while the store also held a self row A->A and the zero row C->B.
C11_Witness ==
    /\ engPc = "generated"
    /\ Len(engEntities) = 3
    /\ trans[<<"A", "A">>] > 0
    /\ trans[<<"C", "B">>] = 0
    /\ Len(engDag.edges) >= 2

\* C12: fitGraphWithData gives each edge the fit score its co-occurrence
\* record decides: -5.0 without a record, -10.0 for a record with total 0 or
\* count 0, ln(count/total) for a record with total > 0 and count > 0
\* (count 5 of total 10 gives ln 0.5 = -0.693).
C12_FitScoreRule ==
    engPc = "fitted" =>
        \A i \in 1..Len(engDag.edges) :
            LET e == engDag.edges[i]
                r == cooc[<<e.from, e.to>>]
            IN  /\ r = NoCooc => e.fit_score = -5000
                /\ (r # NoCooc /\ (r[2] = 0 \/ r[1] = 0)) => e.fit_score = -10000
                /\ (r # NoCooc /\ r[2] > 0 /\ r[1] > 0) => e.fit_score = LnMilli(r[1], r[2])
                /\ r = <<5, 10>> => e.fit_score = -693

\* Witness: one fitted graph holds an edge of each kind: a record 5 of 10, a
\* record with total 0, and no record.
C12_Witness ==
    /\ engPc = "fitted"
    /\ \E i, j, k \in 1..Len(engDag.edges) :
          /\ cooc[<<engDag.edges[i].from, engDag.edges[i].to>>] = <<5, 10>>
          /\ engDag.edges[i].fit_score = -693
          /\ cooc[<<engDag.edges[j].from, engDag.edges[j].to>>] = <<3, 0>>
          /\ engDag.edges[j].fit_score = -10000
          /\ cooc[<<engDag.edges[k].from, engDag.edges[k].to>>] = NoCooc
          /\ engDag.edges[k].fit_score = -5000

\* C14: in every pass of iterativeRefine each edge whose weight is in [0,1]
\* leaves the pass with a weight no smaller than before and no greater
\* than 1.0.
C14_WeightsMonotoneAndCapped ==
    [][(engPc = "refining" /\ refIteration' = refIteration + 1) =>
          /\ Len(engDag'.edges) = Len(engDag.edges)
          /\ \A i \in 1..Len(engDag.edges) :
                (engDag.edges[i].weight >= 0 /\ engDag.edges[i].weight <= WOne) =>
                    /\ engDag'.edges[i].weight >= engDag.edges[i].weight
                    /\ engDag'.edges[i].weight <= WOne]_vars

\* Witness: a pass raised an edge's weight to the cap of 1.0.
C14_Witness ==
    /\ engPc = "refining"
    /\ \E k \in 1..Len(refHistory) :
          /\ refHistory[k].old_weight < WOne
          /\ refHistory[k].new_weight = WOne
    /\ \E i \in 1..Len(engDag.edges) : engDag.edges[i].weight = WOne

\* C15: iterativeRefine with the default maxIterations, on a graph holding
\* one edge of weight 0.5 and one summary that matches an endpoint and
\* contains one causal phrase, returns the edge with weight 0.6.
C15_OneMatchGivesPointSix ==
    (/\ engPc = "refined"
     /\ refMaxIter = DefaultMaxIter
     /\ Len(engDag.edges) = 1
     /\ Len(refSummaries) = 1) =>
        LET e == engDag.edges[1]
        IN  (/\ ProbToWeight(trans[<<e.from, e.to>>]) = 5000
             /\ SummaryMatches(refSummaries[1], e)) => e.weight = 6000

\* C16: iterativeRefine makes at most maxIterations passes, and no pass
\* after a pass that produced zero modifications.
C16_PassesBounded ==
    engPc \in {"refining", "refined"} =>
        /\ Len(passMods) <= refMaxIter
        /\ refIteration = Len(passMods)
        /\ \A i \in 1..(Len(passMods) - 1) : passMods[i] > 0

\* Witness: a run allowed two passes or more returned after a single pass
\* over a non-empty edge list that modified nothing.
C16_Witness ==
    /\ engPc = "refined"
    /\ refMaxIter >= 2
    /\ engDag.edges # <<>>
    /\ passMods = <<0>>

\* --------------------------------------------------- claims C13, C17 to C20
\* The fit rule of the graph contract, for the pair (f, t) of an edge.
FitRule(f, t) ==
    LET r == cooc[<<f, t>>]
    IN  IF r = NoCooc THEN -5000
        ELSE IF r[2] > 0 /\ r[1] > 0 THEN LnMilli(r[1], r[2]) ELSE -10000

RECURSIVE SumScores(_)
SumScores(edges) ==
    IF edges = <<>> THEN 0 ELSE edges[1].fit_score + SumScores(Tail(edges))

FitIsCurrent(g) ==
    /\ \A i \in 1..Len(g.edges) : g.edges[i].fit_score = FitRule(g.edges[i].from, g.edges[i].to)
    /\ g.global_fit = SumScores(g.edges)

\* C13: the graph applyClinicianEdit returns, and every graph predict or
\* refine persists, carries for each edge the fit score of the edge's current
\* from/to pair and a globalFit equal to the sum over its current edges.
C13_FitAfterLastMutation ==
    /\ \A k \in 1..Len(memory) : FitIsCurrent(memory[k])
    /\ \A p \in Procs :
          (req[p].kind = "refine" /\ rpc[p] \in {"loaded", "done"}) => FitIsCurrent(local[p])

\* Witness: refine persisted a graph whose reversed edge has a fit score
\* that differs from the one of its direction before the edit.
C13_Witness ==
    \E k \in 1..Len(memory) : \E i \in 1..Len(memory[k].edges) :
        LET e == memory[k].edges[i]
        IN  /\ e.clinician_reversed
            /\ FitRule(e.from, e.to) # FitRule(e.to, e.from)
            /\ e.fit_score = FitRule(e.from, e.to)

\* C17: rankAndExplain with no candidates returns, without invoking the
\* generation, empty predictions and evidence, the fixed explanation, the
\* given graph and fallback = false.
C17_EmptyCandidates ==
    (rankPc = "returned" /\ rankIn.candidates = <<>>) =>
        /\ rankResult.predictions = <<>>
        /\ rankResult.evidence = <<>>
        /\ rankResult.explanation = "No candidate diseases identified."
        /\ rankResult.dag = rankIn.graph
        /\ ~rankResult.fallback
        /\ genOutcome = "none"
        /\ modelOutput = <<>>
        /\ waited = 0

\* Witness: a call with no candidates but with summaries and a clinician
\* comment has returned.
C17_Witness ==
    /\ rankPc = "returned"
    /\ rankIn.candidates = <<>>
    /\ rankIn.summaries # <<>>
    /\ rankIn.comment # ""
    /\ rankResult.evidence = <<>>

\* C18: for every text the parse cascade returns an accepted result or the
\* no-result sentinel; it never raises to its caller.
C18_ParseNeverRaises ==
    (rankPc = "returned" /\ genOutcome = "text") =>
        ParseModelOutput(modelOutput).status \in {"accepted", "none"}

\* C19: every value the parse cascade accepts is a JSON object holding both
\* the predictions and the explanation key, and a text without "{" yields
\* no-result.
C19_AcceptsOnlyObjects ==
    (rankPc = "returned" /\ genOutcome = "text") =>
        LET r == ParseModelOutput(modelOutput)
        IN  /\ r.status = "accepted" =>
                  (r.kind = "object" /\ {"predictions", "explanation"} \subseteq r.keys)
            /\ "{" \notin Range(modelOutput) => r.status = "none"

C30_SameModificationsEveryPass ==
    engPc = "refined" =>
        IF passMods # <<>> /\ passMods[1] > 0
        THEN /\ Len(passMods) = refMaxIter
             /\ \A i \in 1..Len(passMods) : passMods[i] = passMods[1]
             /\ Len(engDag.modification_history) = refMaxIter * passMods[1]
        ELSE /\ engDag.modification_history = <<>>
             /\ \A i \in 1..Len(engDag.edges) :
                   engDag.edges[i].weight =
                       ProbToWeight(trans[<<engDag.edges[i].from, engDag.edges[i].to>>])

\* Witness: three passes of two modifications each were made, the last on an
\* edge that was already clamped at 1.0.
C30_Witness ==
    /\ engPc = "refined"
    /\ Len(passMods) >= 3
    /\ passMods[1] >= 2
    /\ \E k \in 1..Len(engDag.modification_history) :
          /\ engDag.modification_history[k].old_weight = WOne
          /\ engDag.modification_history[k].new_weight = WOne

\* ------------------------------------------------------------- claim C29
Terminators == {".", "!", "?"}

\* C29: extractiveSummary returns at most maxChars characters: the content
\* itself when it is no longer than maxChars, otherwise the window of the
\* first maxChars characters cut after its last '.', '!' or '?', or, when the
\* window holds none, the truncated window with an ellipsis marker.
C29_SummaryWithinMaxChars ==
    sumPc = "done" =>
        LET window == SubSeq(sumContent, 1, sumMaxChars)
            ends == {i \in 1..Len(window) : window[i] \in Terminators}
        IN  /\ Len(sumResult) <= sumMaxChars
            /\ Len(sumContent) <= sumMaxChars => sumResult = sumContent
            /\ (Len(sumContent) > sumMaxChars /\ ends # {}) =>
                  sumResult = SubSeq(window, 1, CHOOSE i \in ends : \A j \in ends : j <= i)

\* ------------------------------------------------------------- claim C21
TouchingWeights(g, code) ==
    {g.edges[i].weight : i \in {k \in 1..Len(g.edges) :
                                  g.edges[k].to = code \/ g.edges[k].from = code}}

Count(seq, x) == Cardinality({i \in 1..Len(seq) : seq[i] = x})

\* the <<code, score>> pairs of all candidates of the call, as the fallback
\* scores them
AllScored ==
    [i \in 1..Len(fbIn.candidates) |->
        <<fbIn.candidates[i][1],
          FinalScore(fbIn.candidates[i][2],
                     DocSimilarity(fbIn.summaries, fbIn.candidates[i][1]),
                     ClinicianBoost(fbIn.comment, fbIn.candidates[i][1]))>>]

Returned ==
    [i \in 1..Len(fbResult.predictions) |->
        <<fbResult.predictions[i].code, fbResult.predictions[i].score>>]

\* C22: the deterministic fallback for N candidates returns min(N,10)
\* predictions, scores non-increasing in list order, ranks 1,2,...,min(N,10) in
\* list order; the returned entries are candidates of the call and every
\* candidate left out has a score no greater than every candidate returned.
C22_TopTenSortedAndRanked ==
    fbPc = "returned" =>
        /\ Len(fbResult.predictions) = Min2(Len(fbIn.candidates), 10)
        /\ \A i \in 1..Len(fbResult.predictions) :
              /\ fbResult.predictions[i].rank = i
              /\ i > 1 => fbResult.predictions[i].score
                              <= fbResult.predictions[i - 1].score
        /\ \A k \in 1..Len(AllScored) :
              LET x == AllScored[k]
              IN  /\ Count(Returned, x) <= Count(AllScored, x)
                  /\ Count(Returned, x) < Count(AllScored, x) =>
                        \A i \in 1..Len(Returned) : x[2] <= Returned[i][2]
        /\ \A i \in 1..Len(Returned) : Count(AllScored, Returned[i]) > 0

\* a fallback over more than ten candidates, one of them left out
C22_Witness ==
    /\ fbPc = "returned"
    /\ Len(fbIn.candidates) > 10
    /\ Len(fbResult.predictions) = 10
    /\ \E k \in 1..Len(AllScored) : Count(Returned, AllScored[k]) = 0

\* ------------------------------------------------------- claims C23, C24
\* C23: every Prediction rank_and_explain returns, by the model path or by the
\* deterministic path, has an explanation of at most 800 characters, at most
\* 5 evidence entries and evidence snippets of at most 150 characters.
C23_ResultWithinLimits ==
    rankPc = "returned" =>
        /\ rankResult.explanation_len <= 800
        /\ Len(rankResult.evidence) <= 5
        /\ Len(rankResult.snippet_lens) <= 5
        /\ \A i \in 1..Len(rankResult.snippet_lens) : rankResult.snippet_lens[i] <= 150

\* C24: every result rank_and_explain returns for non-empty candidates holds
\* the fields predictions, explanation, evidence and dag, and every returned
\* prediction entry has a code, a rank and a score between 0 and 1, whichever
\* path produced it.
C24_ResultStructure ==
    (rankPc = "returned" /\ rankIn.candidates # <<>>) =>
        /\ {"predictions", "explanation", "evidence", "dag"} \subseteq rankResult.keys
        /\ \A i \in 1..Len(rankResult.predictions) :
              /\ {"code", "rank", "score"} \subseteq DOMAIN rankResult.predictions[i]
              /\ rankResult.predictions[i].score >= 0
              /\ rankResult.predictions[i].score <= 1000

\* ------------------------------------------------------------- claim C25
RowsOf(table, rid) == {i \in 1..Len(table) : table[i].rid = rid}

\* C25: the persistence step of a predict or refine request is all-or-nothing:
\* when one of its writes fails, none of the request's rows (prediction, graph,
\* summary cache) is in storage and the request ended in an error; when it
\* succeeds, its prediction row, its graph row and, for a predict that
\* retrieved its summaries, one cache row per summary are all stored.
C25_AllOrNothing ==
    \A rid \in 1..Len(calls) :
        LET c == calls[rid]
            mems == RowsOf(pipeStore.mem, rid)
            preds == RowsOf(pipeStore.preds, rid)
            cached == RowsOf(pipeStore.cache, rid)
        IN  /\ c.status \in {"loaded", "error"} =>
                  mems = {} /\ preds = {} /\ cached = {}
            /\ c.status = "ok" =>
                  /\ Cardinality(mems) = 1
                  /\ \A i \in mems : pipeStore.mem[i].dag = c.dag
                  /\ Cardinality(preds) = 1
                  /\ Cardinality(cached) =
                        IF c.req.kind = "predict" /\ c.retrieved THEN Len(c.summaries) ELSE 0

\* a predict with three or more writes failed after another request's commit
C25_Witness ==
    \E rid \in 1..Len(calls) :
        /\ calls[rid].status = "error"
        /\ calls[rid].req.kind = "predict"
        /\ calls[rid].retrieved
        /\ calls[rid].summaries # <<>>
        /\ pipeStore.mem # <<>>

\* ------------------------------------------------------------- claim C26
\* Some request of the history removes or reverses the edge f -> t.
EdgeUndone(f, t) ==
    \E i \in 1..Len(calls) :
        /\ calls[i].req.kind = "refine"
        /\ calls[i].req.action \in {"remove_edge", "reverse_edge"}
        /\ calls[i].req.from = f
        /\ calls[i].req.to = t

\* C26: after a refine add_edge(from, to) has been persisted, every later
\* predict for the patient, no remove_edge or reverse_edge of that edge being
\* made, loads the persisted graph instead of generating one and returns and
\* persists a graph that still holds the edge from -> to.
C26_AddedEdgeSurvivesPredict ==
    \A r \in 1..Len(calls), q \in 1..Len(calls) :
        (/\ calls[r].req.kind = "refine"
         /\ calls[r].req.action = "add_edge"
         /\ calls[r].status = "ok"
         /\ calls[q].req.kind = "predict"
         /\ r \in calls[q].seen
         /\ ~EdgeUndone(calls[r].req.from, calls[r].req.to))
            => /\ calls[q].loadedExisting
               /\ HasEdge(calls[q].result.dag, calls[r].req.from, calls[r].req.to)
               /\ \A i \in RowsOf(pipeStore.mem, q) :
                     HasEdge(pipeStore.mem[i].dag, calls[r].req.from, calls[r].req.to)

\* ------------------------------------------------------------- claim C27
CachedCode == "General Medical Knowledge"

\* C27: a predict that carries a clinician comment never reads the summary
\* cache and retrieves its summaries; a predict that carries none and finds
\* cache entries for (patient, last visit) uses them and retrieves nothing;
\* cache rows are written only by predicts that retrieved their summaries.
C27_CacheContract ==
    \A rid \in 1..Len(calls) :
        LET c == calls[rid]
        IN  c.req.kind = "predict" =>
              /\ c.req.comment # "" =>
                    /\ ~c.readCache
                    /\ c.retrieved
                    /\ c.summaries = RetrieveAndSummarize("predict")
              /\ (c.req.comment = "" /\ c.cacheAtLoad > 0) =>
                    /\ ~c.retrieved
                    /\ c.summaries # <<>>
                    /\ \A i \in 1..Len(c.summaries) : c.summaries[i].disease_code = CachedCode
              /\ RowsOf(pipeStore.cache, rid) # {} =>
                    /\ c.retrieved
                    /\ \A i \in 1..Len(c.summaries) : c.summaries[i].disease_code # CachedCode

\* a predict with a comment was served while the cache held entries, and wrote
\* its own; another predict without comment used the cache
C27_Witness ==
    /\ \E rid \in 1..Len(calls) :
          /\ calls[rid].req.kind = "predict"
          /\ calls[rid].req.comment # ""
          /\ calls[rid].cacheAtLoad > 0
          /\ RowsOf(pipeStore.cache, rid) # {}
    /\ \E rid \in 1..Len(calls) :
          /\ calls[rid].req.kind = "predict"
          /\ calls[rid].req.comment = ""
          /\ calls[rid].cacheAtLoad > 0
          /\ calls[rid].status = "ok"

\* ------------------------------------------------------------- claim C28
\* C28: with generation unavailable, unchanged stores and no clinician
\* comment, two successive predict calls for the patient return the same ranked
\* predictions: the same codes, scores, doc similarities and ranks.
C28_RepeatedPredictAgrees ==
    (/\ Len(calls) = 2
     /\ \A i \in 1..2 : /\ calls[i].req.kind = "predict"
                        /\ calls[i].req.comment = ""
                        /\ calls[i].status = "ok"
     /\ 1 \in calls[2].seen)
        => /\ Len(calls[1].result.predictions) = Len(calls[2].result.predictions)
           /\ \A i \in 1..Len(calls[1].result.predictions) :
                 LET a == calls[1].result.predictions[i]
                     b == calls[2].result.predictions[i]
                 IN  /\ a.code = b.code
                     /\ a.score = b.score
                     /\ a.doc_similarity = b.doc_similarity
                     /\ a.rank = b.rank

=============================================================================
